---------------------------- MODULE Spec2Model ----------------------------
(***************************************************************************)
(* SailPointCrawler (src/Webscrapping.py): a recursive, depth-bounded      *)
(* crawl of one site.  crawl() calls crawl_page() on the seed; crawl_page  *)
(* marks the URL visited, fetches it, records the page, extracts and       *)
(* ranks its links and recurses into the five best ones; afterwards the    *)
(* JSON and PDF reports are written.                                       *)
(*                                                                         *)
(* Text is a sequence of one-character strings, so that lower-casing and   *)
(* substring search are computed and not assumed.  A URL is its netloc and *)
(* its path; an href (the attribute of an anchor) also has a fragment and  *)
(* may have no netloc (a relative reference).                              *)
(***************************************************************************)
EXTENDS Integers, Sequences, FiniteSets, TLC

VARIABLES
    max_depth,      \* the max_depth argument of crawl()
    strategy_max_pages, \* self.strategy.max_pages
    site,           \* the site the fetcher serves: "small", "wide" or "fixed"
    stub,           \* the fixed site: what the fetcher serves for each path
    run,            \* 1, or 2 in the run of a second, fresh crawler
    first_pages,    \* the pages_data the first run ended with
    pc,             \* position in crawl(): start, crawl, json, pdf, done, failed
    visited_urls,   \* self.visited_urls
    page_count,     \* self.page_count
    pages_data,     \* self.pages_data, without the title and the content
    stack,          \* the active crawl_page() calls that are in their link loop
    json_report,    \* crawl_report.json, NoReport until written
    pdf_report,     \* "none", "written" or "skipped"
    fetch_log,      \* history: every call of crawler.arun(), in order
    extractions,    \* history: every link extraction, in order
    markdown_files, \* the files of output_dir/markdown
    failed,         \* history: URLs whose fetch failed or raised
    score_failed,   \* history: URLs whose page scorer.score() raised on
    out_of_scope    \* history: URLs that is_valid_url() rejected

vars == <<max_depth, strategy_max_pages, site, stub, run, first_pages, pc,
          visited_urls, page_count, pages_data, stack, json_report, pdf_report,
          fetch_log, extractions, markdown_files, failed, score_failed,
          out_of_scope>>

-----------------------------------------------------------------------------
(* Bounds of the model *)

MaxAnchors == 2         \* short pages have at most this many anchors

(* Constants of the program *)

max_pages == 25         \* BestFirstCrawlingStrategy(max_pages=25)
DefaultMaxDepth == 2    \* crawl(self, max_depth: int = 2), and main() passes 2
LinkLimit == 10         \* links[:10]
MaxFanOut == 5          \* scored_links[:5]
FilenameLimit == 100    \* filename[:100]

-----------------------------------------------------------------------------
(* Text *)

UpperAlpha == <<"A","B","C","D","E","F","G","H","I","J","K","L","M",
                "N","O","P","Q","R","S","T","U","V","W","X","Y","Z">>
LowerAlpha == <<"a","b","c","d","e","f","g","h","i","j","k","l","m",
                "n","o","p","q","r","s","t","u","v","w","x","y","z">>

LowerChar(c) ==
    IF \E i \in DOMAIN UpperAlpha : UpperAlpha[i] = c
    THEN LowerAlpha[CHOOSE i \in DOMAIN UpperAlpha : UpperAlpha[i] = c]
    ELSE c

\* str.lower()
Lower(s) == [i \in 1..Len(s) |-> LowerChar(s[i])]

\* needle in hay
Contains(hay, needle) ==
    \E i \in 0..(Len(hay) - Len(needle)) :
        \A j \in 1..Len(needle) : hay[i + j] = needle[j]

\* s[:n]
Prefix(s, n) == SubSeq(s, 1, IF Len(s) < n THEN Len(s) ELSE n)

\* s.endswith(t)
EndsWith(s, t) ==
    /\ Len(t) <= Len(s)
    /\ \A j \in 1..Len(t) : s[Len(s) - Len(t) + j] = t[j]

DigitChars == <<"0","1","2","3","4","5","6","7","8","9">>

InSeq(c, s) == \E i \in DOMAIN s : s[i] = c

\* re.sub(r'[^a-zA-Z0-9]', '_', s)
Sanitize(s) ==
    [i \in 1..Len(s) |->
        IF InSeq(s[i], LowerAlpha) \/ InSeq(s[i], UpperAlpha) \/ InSeq(s[i], DigitChars)
        THEN s[i] ELSE "_"]

\* self.scorer.keywords
Keywords == <<
    <<"c","o","n","n","e","c","t","o","r">>,
    <<"P","l","u","g","i","n","s">>,
    <<"P","r","o","v","i","s","i","o","n","i","n","g">>,
    <<"r","e","p","o","r","t">>,
    <<"i","n","t","e","g","r","a","t","i","o","n">>,
    <<"A","P","I">>,
    <<"i","d","e","n","t","i","t","y">>,
    <<"g","o","v","e","r","n","a","n","c","e">>,
    <<"a","c","c","e","s","s">>,
    <<"s","e","c","u","r","i","t","y">> >>

-----------------------------------------------------------------------------
(* URLs *)

Scheme == <<"h","t","t","p","s",":","/","/">>

\* the text of a URL
UrlText(u) == Scheme \o u.netloc \o u.path

Url(netloc, path) == [netloc |-> netloc, path |-> path]
Href(netloc, path, frag) == [netloc |-> netloc, path |-> path, frag |-> frag]

\* urljoin(current_url, href), still carrying the fragment of href
urljoin(current_url, href) ==
    IF href.netloc # <<>>
    THEN href
    ELSE IF href.path # <<>>
    THEN Href(current_url.netloc, href.path, href.frag)
    ELSE Href(current_url.netloc, current_url.path, href.frag)

\* absolute_url.split('#')[0]
StripFragment(h) == Url(h.netloc, h.path)

\* the seed and its host
SeedHost == <<"d">>
SubHost == <<"s", ".", "d">>       \* a subdomain of the seed's host
base_url == Url(SeedHost, <<"/">>)
domain == base_url.netloc         \* urlparse(base_url).netloc

\* is_valid_url with a suffix match of the host: subdomains pass
is_valid_url_suffix(url) == EndsWith(url.netloc, domain)

\* is_valid_url
is_valid_url(url) == url.netloc = domain

RECURSIVE extract_links(_, _, _)
\* extract_links: the anchors of html, in document order, resolved against
\* current_url, without their fragment, kept when in scope and not in visited
extract_links(html, current_url, visited) ==
    IF html = <<>> THEN <<>>
    ELSE LET absolute_url == StripFragment(urljoin(current_url, Head(html)))
             rest == extract_links(Tail(html), current_url, visited)
         IN  IF is_valid_url(absolute_url) /\ absolute_url \notin visited
             THEN <<absolute_url>> \o rest
             ELSE rest

\* the URLs of the anchors of html that is_valid_url rejects
RejectedLinks(html, current_url) ==
    {u \in {StripFragment(urljoin(current_url, html[i])) : i \in DOMAIN html} :
        ~ is_valid_url(u)}

-----------------------------------------------------------------------------
(* The inputs: pages and fetch results *)

NoFrag == <<>>
Relative == <<>>        \* the netloc of a relative reference

PathRoot == <<"/">>
PathA == <<"/","a">>
PathApi == <<"/","a","p","i">>
PathAPI == <<"/","A","P","I">>
Paths == {PathRoot, PathA, PathApi, PathAPI}

Urls == {Url(n, p) : n \in {SeedHost, SubHost}, p \in Paths}

Hrefs == {
    Href(Relative, PathA, <<"f">>),         \* <a href="/a#f">
    Href(Relative, PathApi, NoFrag),        \* <a href="/api">
    Href(SeedHost, PathAPI, NoFrag),        \* <a href="https://d/API">
    Href(SubHost, PathApi, NoFrag) }        \* <a href="https://s.d/api">

Repeat(x, n) == [i \in 1..n |-> x]

\* pages of at most MaxAnchors anchors
ShortPages == UNION {[1..n -> Hrefs] : n \in 0..MaxAnchors}

\* pages of more anchors than crawl_page scores: <a href="/a"> LinkLimit - 1
\* times, then two more anchors
LongHrefs == {
    Href(Relative, PathA, <<"f">>),
    Href(SeedHost, PathAPI, NoFrag) }

LongPages ==
    {Repeat(Href(Relative, PathA, NoFrag), LinkLimit - 1) \o <<h2, h3>> :
        h2, h3 \in LongHrefs}

Htmls == ShortPages \cup LongPages

PageScores == {1}       \* a value of self.scorer.score(result.html)

\* arun() returned with result.success; scoring says whether scorer.score raised
Success(scoring, score) == [kind |-> "ok", scoring |-> scoring, score |-> score]
\* arun() returned with result.success false
Failure == [kind |-> "fail", scoring |-> "ok", score |-> 0]
\* arun() raised
Raised == [kind |-> "raise", scoring |-> "ok", score |-> 0]

Results ==
    {Failure, Raised}
    \cup {Success("ok", s) : s \in PageScores}
    \cup {Success("raise", 0)}

\* The wide site: the seed links to /c1../c6, /ci links to /gi1../gi6, the
\* /gij have no links; every page is served, except that a /gi1 may fail
Digits == <<"1","2","3","4","5","6">>

WidePaths ==
    {PathRoot}
    \cup {<<"/","c",Digits[i]>> : i \in DOMAIN Digits}
    \cup {<<"/","g",Digits[i],Digits[j]>> : i, j \in DOMAIN Digits}

WideUrls == {Url(SeedHost, p) : p \in WidePaths}

WidePage(path) ==
    LET stem == IF path = PathRoot THEN <<"/","c">> ELSE <<"/","g",path[3]>>
    IN  IF Len(path) > 3 THEN <<>>
        ELSE [j \in DOMAIN Digits |-> Href(Relative, stem \o <<Digits[j]>>, NoFrag)]

WideResults(url) ==
    {Success("ok", 0)}
    \cup (IF Len(url.path) > 3 /\ url.path[4] = Digits[1] THEN {Failure} ELSE {})

\* The fixed site: every path has one content, the same at every fetch.  A
\* page lists the three links of the seed host in some order; /api and /API
\* score the same.
HrefA == Href(Relative, PathA, <<"f">>)
HrefApi == Href(Relative, PathApi, NoFrag)
HrefAPI == Href(SeedHost, PathAPI, NoFrag)

FixedPages == <<
    <<HrefA, HrefApi, HrefAPI>>, <<HrefA, HrefAPI, HrefApi>>,
    <<HrefApi, HrefA, HrefAPI>>, <<HrefApi, HrefAPI, HrefA>>,
    <<HrefAPI, HrefA, HrefApi>>, <<HrefAPI, HrefApi, HrefA>> >>

PathList == <<PathRoot, PathA, PathApi, PathAPI>>

\* a path is served one of the FixedPages, or (0) its fetch fails
Stubs == [DOMAIN PathList -> 0..Len(FixedPages)]

NoStub == <<>>

Served(url) == stub[CHOOSE i \in DOMAIN PathList : PathList[i] = url.path]

\* crawler.arun(url): the results the fetcher may give for url
Fetch(url) ==
    IF site = "small" THEN Results
    ELSE IF site = "wide" THEN WideResults(url)
    ELSE {IF Served(url) = 0 THEN Failure ELSE Success("ok", 1)}

\* result.html: the pages the fetcher may have served for url
Html(url) ==
    IF site = "small" THEN Htmls
    ELSE IF site = "wide" THEN {WidePage(url.path)}
    ELSE {FixedPages[Served(url)]}

NoUrl == Url(<<>>, <<>>)

NoReport == [written |-> FALSE, total_pages |-> 0, pages |-> <<>>]

-----------------------------------------------------------------------------
(* Ranking the links of a page *)

\* link_score: the number of keywords that occur in the link, case-insensitively
link_score(link) ==
    Cardinality({k \in DOMAIN Keywords :
                    Contains(Lower(UrlText(link)), Lower(Keywords[k]))})

\* link_score over the URLs of the model, computed once
LinkScores == [u \in Urls \cup WideUrls |-> link_score(u)]

\* scored_links as built by the loop over links[:10]
ScoreLinks(links) ==
    LET first == Prefix(links, LinkLimit)
    IN  [i \in 1..Len(first) |-> [link |-> first[i], score |-> LinkScores[first[i]]]]

\* x put before the entries that score the same: the order of a sort ascending
\* that is then reversed
InsertByScore_before_equals(x, sorted) ==
    LET n == Cardinality({i \in DOMAIN sorted : sorted[i].score > x.score})
    IN  SubSeq(sorted, 1, n) \o <<x>> \o SubSeq(sorted, n + 1, Len(sorted))

\* x put into a list sorted by score descending, after the entries that score
\* at least as much
InsertByScore(x, sorted) ==
    LET n == Cardinality({i \in DOMAIN sorted : sorted[i].score >= x.score})
    IN  SubSeq(sorted, 1, n) \o <<x>> \o SubSeq(sorted, n + 1, Len(sorted))

RECURSIVE SortFrom(_, _)
SortFrom(todo, sorted) ==
    IF todo = <<>> THEN sorted
    ELSE SortFrom(Tail(todo), InsertByScore(Head(todo), sorted))

\* the sort left out: scored_links stays in document order
SortByScore_none(scored_links) == scored_links

Reverse(s) == [i \in DOMAIN s |-> s[Len(s) + 1 - i]]

\* a sort whose order among equal scores changes from one process to the next
SortByScore_per_process(scored_links) ==
    SortFrom(IF run = 1 THEN scored_links ELSE Reverse(scored_links), <<>>)

\* scored_links.sort(key=lambda x: x[1], reverse=True): stable
SortByScore(scored_links) == SortFrom(scored_links, <<>>)

\* the loop over all of scored_links, without the [:5]
TopLinks_uncut(links) == SortByScore(ScoreLinks(links))

\* the links crawl_page recurses into: scored_links[:5] after the sort
TopLinks(links) == Prefix(SortByScore(ScoreLinks(links)), MaxFanOut)

-----------------------------------------------------------------------------
(* crawl_page *)

\* the early return without the test of visited_urls
ShouldSkip_depth_only(url, current_depth) == current_depth > max_depth

\* line 75: the early return
ShouldSkip(url, current_depth) ==
    url \in visited_urls \/ current_depth > max_depth

\* result.success not tested: a failed result is recorded as a page
Succeeded_untested(result) == TRUE

\* line 89: result.success, reached when arun() did not raise
Succeeded(result) == result.kind = "ok"

\* scorer.score() not guarded: its exception ends the call as one of arun()
Aborted_by_scoring(result) ==
    result.kind = "raise" \/ (result.kind = "ok" /\ result.scoring = "raise")

\* an exception reached the except of line 160: only arun() can raise it, the
\* one of scorer.score() is caught at line 100
Aborted(result) == result.kind = "raise"

\* lines 98-102: the score of the page, 0.0 when scoring raised
PageScore(result) == IF result.scoring = "raise" THEN 0 ELSE result.score

\* links extracted at max_depth too
ShouldExtract_at_max_depth(current_depth) == current_depth <= max_depth

\* line 131: links are extracted below max_depth only
ShouldExtract(current_depth) == current_depth < max_depth

\* the failure not caught: it ends the calling crawl_page as well
AfterFailure_propagates(callers) ==
    IF callers = <<>> THEN callers ELSE SubSeq(callers, 1, Len(callers) - 1)

\* lines 157-161: a failed fetch is printed and crawl_page returns to its caller
AfterFailure(callers) == callers

\* the URL marked only once its fetch has succeeded
MarkVisited_on_success(url, result) ==
    IF result.kind = "ok" THEN visited_urls \cup {url} ELSE visited_urls

\* self.visited_urls.add(url), before the fetch: whatever the result is
MarkVisited(url, result) == visited_urls \cup {url}

\* the links some page has submitted for crawling that are not visited yet
Pending ==
    UNION {{extractions[i].submitted[j].link : j \in DOMAIN extractions[i].submitted} :
              i \in DOMAIN extractions}
    \ visited_urls

\* save_markdown: the sanitized URL of a file name
MarkdownStem(url) == Prefix(Sanitize(UrlText(url)), FilenameLimit)

\* MarkdownStem over the URLs of the model, computed once
MarkdownStems == [u \in Urls \cup WideUrls |-> MarkdownStem(u)]

\* save_markdown: the name of the file of a page
MarkdownName(page_data) ==
    [num |-> page_data.page_num, stem |-> MarkdownStems[page_data.url]]

\* save_markdown: filepath.write_text replaces a file of the same name
save_markdown(files, page_data) ==
    {f \in files : f.name # MarkdownName(page_data)}
    \cup {[name |-> MarkdownName(page_data), url |-> page_data.url]}

\* crawl_page(url, crawler, max_depth, current_depth), called with the calls
\* `callers` suspended below it; runs up to its first recursive call or its
\* return.  The html of the result is drawn where crawl_page reads it.
crawl_page(url, current_depth, callers) ==
    IF ShouldSkip(url, current_depth)
    THEN /\ stack' = callers
         /\ UNCHANGED <<visited_urls, page_count, pages_data, fetch_log,
                        extractions, markdown_files, failed, score_failed,
                        out_of_scope>>
    ELSE \E result \in Fetch(url) :
         /\ visited_urls' = MarkVisited(url, result)
         /\ page_count' = page_count + 1
         /\ fetch_log' = Append(fetch_log,
                [url |-> url, depth |-> current_depth,
                 parent |-> IF callers = <<>> THEN NoUrl ELSE callers[Len(callers)].url,
                 pending |-> Pending \ {url}])
         /\ failed' = IF result.kind = "ok" THEN failed ELSE failed \cup {url}
         /\ score_failed' = IF result.kind = "ok" /\ result.scoring = "raise"
                            THEN score_failed \cup {url} ELSE score_failed
         /\ IF ~Aborted(result) /\ Succeeded(result)
            THEN LET page_data == [page_num |-> page_count', url |-> url,
                                   score |-> PageScore(result),
                                   depth |-> current_depth]
                 IN
                 /\ pages_data' = Append(pages_data, page_data)
                 /\ markdown_files' = save_markdown(markdown_files, page_data)
                 /\ IF ShouldExtract(current_depth)
                    THEN \E html \in Html(url) :
                         LET links == extract_links(html, url, visited_urls')
                         IN  /\ stack' = Append(callers,
                                    [url |-> url, depth |-> current_depth,
                                     todo |-> TopLinks(links)])
                             /\ extractions' = Append(extractions,
                                    [url |-> url, depth |-> current_depth,
                                     links |-> links, submitted |-> TopLinks(links)])
                             /\ out_of_scope' =
                                    out_of_scope \cup RejectedLinks(html, url)
                    ELSE /\ stack' = callers
                         /\ UNCHANGED <<extractions, out_of_scope>>
            ELSE /\ stack' = AfterFailure(callers)
                 /\ UNCHANGED <<pages_data, markdown_files, extractions, out_of_scope>>

\* the crawl is over when the call on the seed has returned
AfterCall == IF stack' = <<>> THEN "json" ELSE "crawl"

-----------------------------------------------------------------------------
(* Actions *)

\* crawl(): await self.crawl_page(self.base_url, crawler, max_depth)
Crawl ==
    /\ pc = "start"
    /\ crawl_page(base_url, 0, <<>>)
    /\ pc' = AfterCall
    /\ UNCHANGED <<max_depth, strategy_max_pages, site, stub, run, first_pages,
                   json_report, pdf_report>>

\* a loop that does not move on: it takes the same link again
RestOfLinks_same(todo) == todo

\* for link, score in scored_links[:5]: the links the loop has still to take
\* once it has taken the first
RestOfLinks(todo) == Tail(todo)

\* the loop of lines 155-156 calls crawl_page on its next link
CrawlLink ==
    /\ pc = "crawl"
    /\ stack # <<>>
    /\ LET top == stack[Len(stack)]
       IN  /\ top.todo # <<>>
           /\ crawl_page(Head(top.todo).link, top.depth + 1,
                         [stack EXCEPT ![Len(stack)].todo = RestOfLinks(top.todo)])
    /\ pc' = AfterCall
    /\ UNCHANGED <<max_depth, strategy_max_pages, site, stub, run, first_pages,
                   json_report, pdf_report>>

\* the loop of lines 155-156 is over: crawl_page returns
Return ==
    /\ pc = "crawl"
    /\ stack # <<>>
    /\ stack[Len(stack)].todo = <<>>
    /\ stack' = SubSeq(stack, 1, Len(stack) - 1)
    /\ pc' = AfterCall
    /\ UNCHANGED <<max_depth, strategy_max_pages, site, stub, run, first_pages,
                   visited_urls, page_count, pages_data, json_report,
                   pdf_report, fetch_log, extractions, markdown_files, failed,
                   score_failed, out_of_scope>>

\* the pages in the order of the PDF report: best score first
JsonPages_by_score(pages) == SortByScore(pages)

\* save_json_report: 'pages': self.pages_data
JsonPages(pages) == pages

\* save_json_report(); writing the file may raise, which ends crawl()
SaveJsonReport ==
    /\ pc = "json"
    /\ \E ok \in BOOLEAN :
          IF ok
          THEN /\ json_report' = [written |-> TRUE,
                                  total_pages |-> Len(pages_data),
                                  pages |-> JsonPages(pages_data)]
               /\ pc' = "pdf"
          ELSE /\ json_report' = json_report
               /\ pc' = "failed"
    /\ UNCHANGED <<max_depth, strategy_max_pages, site, stub, run, first_pages,
                   visited_urls, page_count, pages_data, stack, pdf_report,
                   fetch_log, extractions, markdown_files, failed,
                   score_failed, out_of_scope>>

\* generate_pdf_report(): the report is built, or reportlab is missing
\* (ImportError, caught), or another error is raised, which ends crawl()
GeneratePdfReport ==
    /\ pc = "pdf"
    /\ \E outcome \in {"built", "import_error", "error"} :
          /\ pdf_report' = CASE outcome = "built" -> "written"
                             [] outcome = "import_error" -> "skipped"
                             [] OTHER -> pdf_report
          /\ pc' = IF outcome = "error" THEN "failed" ELSE "done"
    /\ UNCHANGED <<max_depth, strategy_max_pages, site, stub, run, first_pages,
                   visited_urls, page_count, pages_data, stack, json_report,
                   fetch_log, extractions, markdown_files, failed,
                   score_failed, out_of_scope>>

Next == Crawl \/ CrawlLink \/ Return \/ SaveJsonReport \/ GeneratePdfReport

\* the state after SailPointCrawler(base_url), before crawl(max_depth)
Fresh ==
    /\ pc = "start"
    /\ visited_urls = {}
    /\ page_count = 0
    /\ pages_data = <<>>
    /\ stack = <<>>
    /\ json_report = NoReport
    /\ pdf_report = "none"
    /\ fetch_log = <<>>
    /\ extractions = <<>>
    /\ markdown_files = {}
    /\ failed = {}
    /\ score_failed = {}
    /\ out_of_scope = {}

\* any fetcher over the small site, max_depth up to the one main() passes
Init ==
    /\ max_depth \in -1..DefaultMaxDepth
    /\ strategy_max_pages = max_pages
    /\ site = "small"
    /\ stub = NoStub
    /\ run = 1
    /\ first_pages = <<>>
    /\ Fresh

Spec == Init /\ [][Next]_vars

\* the wide site, max_depth up to the one main() passes
InitWide ==
    /\ max_depth \in -1..DefaultMaxDepth
    /\ strategy_max_pages = max_pages
    /\ site = "wide"
    /\ stub = NoStub
    /\ run = 1
    /\ first_pages = <<>>
    /\ Fresh

SpecWide == InitWide /\ [][Next]_vars

\* crawl() is one coroutine that asyncio.run() drives to its end: when every
\* fetch returns, a step that can be taken is taken
SpecLive == Init /\ [][Next]_vars /\ WF_vars(Next)

\* the small site, the page budget of the strategy set to 0 or left as shipped
InitBudget ==
    /\ max_depth \in -1..DefaultMaxDepth
    /\ strategy_max_pages \in {0, max_pages}
    /\ site = "small"
    /\ stub = NoStub
    /\ run = 1
    /\ first_pages = <<>>
    /\ Fresh

SpecBudget == InitBudget /\ [][Next]_vars

\* a second crawler is constructed after the first has run: nothing of the
\* first instance is kept, the fetcher and the configuration are the same
Restart ==
    /\ run = 1
    /\ pc \in {"done", "failed"}
    /\ run' = 2
    /\ first_pages' = pages_data
    /\ pc' = "start"
    /\ visited_urls' = {}
    /\ page_count' = 0
    /\ pages_data' = <<>>
    /\ stack' = <<>>
    /\ json_report' = NoReport
    /\ pdf_report' = "none"
    /\ fetch_log' = <<>>
    /\ extractions' = <<>>
    /\ markdown_files' = {}
    /\ failed' = {}
    /\ score_failed' = {}
    /\ out_of_scope' = {}
    /\ UNCHANGED <<max_depth, strategy_max_pages, site, stub>>

NextTwoRuns == Next \/ Restart

\* two runs over a fixed site
InitTwoRuns ==
    /\ max_depth \in 0..DefaultMaxDepth
    /\ strategy_max_pages = max_pages
    /\ site = "fixed"
    /\ stub \in Stubs
    /\ run = 1
    /\ first_pages = <<>>
    /\ Fresh

SpecTwoRuns == InitTwoRuns /\ [][NextTwoRuns]_vars

-----------------------------------------------------------------------------
(* Claims *)

\* C1: the total_pages written to the JSON summary is at most max_pages.
C1_TotalPagesWithinMaxPages ==
    json_report.written => json_report.total_pages <= max_pages

\* the state after the JSON report was written: no later step changes the crawl
RunOver == pc \in {"pdf", "done", "failed"} /\ json_report.written

\* C2 as stated: at the end of a run the number of visited URLs equals the
\* total_pages of the JSON summary, also when fetches failed or raised.
C2_VisitedEqualsTotalPages ==
    RunOver => Cardinality(visited_urls) = json_report.total_pages

\* C2 as amended: at the end of a run the total_pages of the JSON summary is
\* the number of visited URLs minus the number of URLs whose fetch failed or
\* raised; the failed URLs are visited.
C2_TotalPagesIsVisitedMinusFailed ==
    RunOver =>
        /\ failed \subseteq visited_urls
        /\ json_report.total_pages = Cardinality(visited_urls) - Cardinality(failed)
        /\ json_report.total_pages = Len(pages_data)

C2_Witness ==
    /\ RunOver
    /\ failed # {}
    /\ json_report.total_pages >= 2

\* the positions of log (fetch_log or pages_data) that are about url
EntriesOf(log, url) == {i \in DOMAIN log : log[i].url = url}

\* the URLs a page has submitted for crawling
SubmittedBy(e) == {e.submitted[j].link : j \in DOMAIN e.submitted}

\* C3: every URL is passed to the fetcher at most once, is in at most one
\* PageRecord and in at most one Markdown file.
C3_EveryUrlAtMostOnce ==
    /\ \A i, j \in DOMAIN fetch_log :
          fetch_log[i].url = fetch_log[j].url => i = j
    /\ \A i, j \in DOMAIN pages_data :
          pages_data[i].url = pages_data[j].url => i = j
    /\ \A f, g \in markdown_files : f.url = g.url => f = g
    /\ Cardinality(markdown_files) = Len(pages_data)

\* a crawl that is over in which a recorded URL was submitted by two pages,
\* the second of them fetched below the first
C3_Witness ==
    /\ pc = "done"
    /\ \E i, j \in DOMAIN extractions : \E u \in SubmittedBy(extractions[i]) :
          /\ i < j
          /\ u \in SubmittedBy(extractions[j])
          /\ EntriesOf(pages_data, u) # {}
          /\ \E k \in DOMAIN fetch_log :
                /\ fetch_log[k].url = extractions[j].url
                /\ fetch_log[k].depth > extractions[i].depth

\* C4: every PageRecord has a depth in 0..max_depth, no fetch is issued at a
\* depth above max_depth, and links are extracted only from pages whose depth
\* is below max_depth.
C4_DepthBounded ==
    /\ \A i \in DOMAIN pages_data :
          pages_data[i].depth >= 0 /\ pages_data[i].depth <= max_depth
    /\ \A i \in DOMAIN fetch_log : fetch_log[i].depth <= max_depth
    /\ \A i \in DOMAIN extractions : extractions[i].depth < max_depth

\* a page recorded at max_depth, reached through links
C4_Witness ==
    /\ max_depth >= 1
    /\ \E i \in DOMAIN pages_data : pages_data[i].depth = max_depth

\* C5: the k-th PageRecord has sequence number k, also when fetches failed.
C5_SequenceNumbersDense ==
    \A k \in DOMAIN pages_data : pages_data[k].page_num = k

\* C6: whenever a URL is selected for fetching, no submitted and not yet
\* visited URL has a strictly higher URL-heuristic score.
C6_HighestPriorityFirst ==
    \A i \in DOMAIN fetch_log :
        \A p \in fetch_log[i].pending :
            LinkScores[p] <= LinkScores[fetch_log[i].url]

\* the depths (parent depth + 1) at which url was found as a link of a page
DiscoveryDepths(url) ==
    {extractions[i].depth + 1 :
        i \in {k \in DOMAIN extractions :
                  \E j \in DOMAIN extractions[k].links :
                      extractions[k].links[j] = url}}

Minimum(S) == CHOOSE m \in S : \A n \in S : m <= n

\* C7: a URL that is a link of two or more fetched pages is fetched at most
\* once and, when its fetch succeeds, is recorded exactly once, at the minimum
\* depth at which it was found as a link.
C7_RecordedAtMinimumDiscoveryDepth ==
    \A u \in Urls :
        Cardinality({k \in DOMAIN extractions :
                        \E j \in DOMAIN extractions[k].links :
                            extractions[k].links[j] = u}) >= 2
        => /\ Cardinality(EntriesOf(fetch_log, u)) <= 1
           /\ (u \in visited_urls /\ u \notin failed)
                 => Cardinality(EntriesOf(pages_data, u)) = 1
           /\ \A k \in EntriesOf(pages_data, u) :
                 pages_data[k].depth = Minimum(DiscoveryDepths(u))

\* how often url is in the list of URLs s
Count(url, s) == Cardinality({i \in DOMAIN s : s[i] = url})

\* the URLs of a list of scored links
LinksOf(scored) == [j \in DOMAIN scored |-> scored[j].link]

\* the scored links `submitted` are the best of the links `pool`: at most
\* MaxFanOut of them, all of them if the pool has no more, each scored by the
\* URL heuristic, and no link of the pool that is left out scores more than a
\* submitted one
BestOf(submitted, pool) ==
    LET chosen == LinksOf(submitted)
    IN  /\ Len(submitted) <= MaxFanOut
        /\ Len(submitted) = Len(pool) \/ Len(submitted) = MaxFanOut
        /\ \A j \in DOMAIN submitted :
              submitted[j].score = LinkScores[submitted[j].link]
        /\ \A u \in {chosen[j] : j \in DOMAIN chosen} :
              Count(u, chosen) <= Count(u, pool)
        /\ \A u \in {pool[i] : i \in DOMAIN pool} :
              Count(u, chosen) < Count(u, pool)
                 => \A j \in DOMAIN submitted : submitted[j].score >= LinkScores[u]

\* crawl_page is called on the submitted links in descending order of score:
\* the list is sorted, and the fetches made from the page follow it
CrawledInOrder(e) ==
    /\ \A i, j \in DOMAIN e.submitted :
          i < j => e.submitted[i].score >= e.submitted[j].score
    /\ \A a, b \in DOMAIN fetch_log :
          (a < b /\ fetch_log[a].parent = e.url /\ fetch_log[b].parent = e.url)
             => LinkScores[fetch_log[a].url] >= LinkScores[fetch_log[b].url]

C9_FailureDoesNotHalt ==
    /\ \A u \in failed : EntriesOf(pages_data, u) = {}
    /\ pc \notin {"start", "crawl"} =>
          \A i \in DOMAIN extractions :
              \A u \in SubmittedBy(extractions[i]) : EntriesOf(fetch_log, u) # {}

\* a finished run in which a submitted link failed and a later link of the
\* same page was fetched from that page after it
C9_Witness ==
    /\ pc = "done"
    /\ \E i \in DOMAIN extractions :
          LET e == extractions[i]
          IN  \E a, b \in DOMAIN e.submitted :
                 /\ a < b
                 /\ e.submitted[a].link \in failed
                 /\ \E k, m \in DOMAIN fetch_log :
                       /\ k < m
                       /\ fetch_log[k].url = e.submitted[a].link
                       /\ fetch_log[m].url = e.submitted[b].link
                       /\ fetch_log[m].parent = e.url

\* C10: every URL that is submitted, fetched or recorded has the netloc of
\* the seed.
C10_OnlySeedHost ==
    /\ \A i \in DOMAIN fetch_log : fetch_log[i].url.netloc = base_url.netloc
    /\ \A i \in DOMAIN pages_data : pages_data[i].url.netloc = base_url.netloc
    /\ \A i \in DOMAIN extractions :
          \A u \in SubmittedBy(extractions[i]) : u.netloc = base_url.netloc
    /\ \A f \in markdown_files : f.url.netloc = base_url.netloc

\* a finished run in which a fetched page had a link to a subdomain of the
\* seed's host, and links of the seed's host that were crawled
C10_Witness ==
    /\ pc = "done"
    /\ \E u \in out_of_scope :
          u.netloc # base_url.netloc /\ EndsWith(u.netloc, base_url.netloc)
    /\ Len(pages_data) >= 2


WithScore(links, s) == SelectSeq(links, LAMBDA u : LinkScores[u] = s)

IsPrefix(a, b) == Len(a) <= Len(b) /\ a = SubSeq(b, 1, Len(a))

\* the place of the first occurrence of url in links
FirstIndex(links, url) ==
    CHOOSE i \in DOMAIN links :
        links[i] = url /\ \A j \in 1..(i - 1) : links[j] # url

C14_ReportsIndependent ==
    /\ pc # "failed"
    /\ pc = "done" => json_report.written

\* the first extraction that found url, 0 for the seed
DiscoveryIndex(url) ==
    IF url = base_url THEN 0
    ELSE Minimum({i \in DOMAIN extractions :
                     \E j \in DOMAIN extractions[i].links :
                         extractions[i].links[j] = url})

\* u was discovered before v: by an earlier extraction, or earlier among the
\* links of the same page
DiscoveredBefore(u, v) ==
    \/ DiscoveryIndex(u) < DiscoveryIndex(v)
    \/ /\ DiscoveryIndex(u) = DiscoveryIndex(v)
       /\ DiscoveryIndex(u) > 0
       /\ FirstIndex(extractions[DiscoveryIndex(u)].links, u)
             < FirstIndex(extractions[DiscoveryIndex(v)].links, v)

\* C15 as stated: the pages of the JSON report are in discovery order.
C15_DiscoveryOrder ==
    json_report.written =>
        \A a, b \in DOMAIN json_report.pages :
            a < b => DiscoveredBefore(json_report.pages[a].url,
                                      json_report.pages[b].url)

\* C15, amended: the pages of the JSON report are the PageRecords of
\* pages_data in the order in which their URLs were fetched, which is the
\* order of their sequence numbers.
C15_FetchOrder ==
    json_report.written =>
        /\ json_report.pages = pages_data
        /\ \A a, b \in DOMAIN json_report.pages :
              a < b =>
                /\ json_report.pages[a].page_num < json_report.pages[b].page_num
                /\ \A i \in EntriesOf(fetch_log, json_report.pages[a].url) :
                   \A j \in EntriesOf(fetch_log, json_report.pages[b].url) : i < j

\* a report in which a page comes before one that was discovered earlier, and
\* a page of a lower score before one of a higher score
C15_Witness ==
    /\ json_report.written
    /\ \E a, b \in DOMAIN json_report.pages :
          /\ a < b
          /\ DiscoveredBefore(json_report.pages[b].url, json_report.pages[a].url)
    /\ \E a, b \in DOMAIN json_report.pages :
          a < b /\ json_report.pages[a].score < json_report.pages[b].score

\* C16: the links extract_links returns for a page are pairwise different.
C16_NoDuplicateLinks ==
    \A i \in DOMAIN extractions :
        \A j, k \in DOMAIN extractions[i].links :
            extractions[i].links[j] = extractions[i].links[k] => j = k

C18_TraversalEnds == <>(pc = "json" /\ stack = <<>>)

\* the traversal is over after four fetches, one of them of a page that
\* submitted a link another page had submitted: a link back into the crawl
C18_Witness ==
    /\ pc = "json"
    /\ Len(fetch_log) = 4
    /\ \E i, j \in DOMAIN extractions :
          /\ i < j
          /\ SubmittedBy(extractions[i]) \cap SubmittedBy(extractions[j]) # {}

\* C19: a page that was fetched and whose scoring raised is recorded, with
\* score 0; when its depth is below max_depth its links are extracted, and
\* when the crawl is over the links it submitted have been crawled.
C19_ScoringFailureIsZero ==
    \A k \in DOMAIN fetch_log :
        fetch_log[k].url \in score_failed =>
            /\ \E r \in DOMAIN pages_data :
                  /\ pages_data[r].url = fetch_log[k].url
                  /\ pages_data[r].score = 0
                  /\ pages_data[r].depth = fetch_log[k].depth
            /\ fetch_log[k].depth < max_depth =>
                  \E i \in DOMAIN extractions :
                      /\ extractions[i].url = fetch_log[k].url
                      /\ pc \notin {"start", "crawl"} =>
                            SubmittedBy(extractions[i]) \subseteq visited_urls

\* a run that is over in which a page whose scoring raised had a link that
\* was fetched from it and recorded
C19_Witness ==
    /\ pc = "done"
    /\ \E i \in DOMAIN extractions : \E k \in DOMAIN fetch_log :
          /\ extractions[i].url \in score_failed
          /\ fetch_log[k].parent = extractions[i].url
          /\ EntriesOf(pages_data, fetch_log[k].url) # {}

\* 5^0 + ... + 5^d, 0 when d < 0
RECURSIVE GeometricSum(_)
GeometricSum(d) == IF d < 0 THEN 0 ELSE MaxFanOut ^ d + GeometricSum(d - 1)

=============================================================================
